---- MODULE Spec2Model ----
(***************************************************************************)
(* The expression-graph builder of src/IRNode.cpp: the node store, the     *)
(* three uniquing tables, the factory make with its rewrite pipeline, the  *)
(* coercion as, the bulk transforms substitute, bind, rebalanceSum and     *)
(* optimize, and the collector collectGarbage / clearAll.                  *)
(*                                                                         *)
(* A node pointer is a positive integer, the index of the node's record in *)
(* nodes; 0 is NULL.  Addresses are never reused: the record of a deleted  *)
(* node stays in nodes as the image of its freed memory, and the node is   *)
(* live iff its index is in allNodes.                                      *)
(*                                                                         *)
(* A float is held as a count of halves (fval = 3 is 1.5f), so that        *)
(* IntToFloat and FloatToInt are real conversions.  Values stay far from   *)
(* the limits of int and float; a fold that leaves the halves (a quarter,  *)
(* a division by zero) is outside the model and disables the call.         *)
(***************************************************************************)
EXTENDS Integers, Sequences, FiniteSets, TLC

\* ------------------------------------------------------------------ bounds
\* Most node records ever allocated in one run (live or freed) by the graph
\* client.
MaxNodes == 3
\* The same for the clients of the other specifications.
GCNodes == 3
IdemNodes == 6
SumNodes == 4
TypingNodes == 3
FoldNodes == 3
ConstNodes == 3
ArityNodes == 2
SubstNodes == 5
OrNodes == 5
LoadNodes == 5
DepsNodes == 3
FrameNodes == 3
TimesNodes == 6
SortNodes == 7
\* Deepest nesting of make / as / rebalanceSum calls that is followed.
MaxDepth == 12

\* ------------------------------------------------------------- enumerations
Int_ == "Int"
Float_ == "Float"
Bool_ == "Bool"
Types == {Int_, Float_, Bool_}

VarOps == {"VarX", "VarY", "VarT", "VarC"}
ArithOps == {"Plus", "Minus", "Times", "Power", "Mod"}
UnaryFloatOps == {"Sin", "Cos", "Tan", "ASin", "ACos", "ATan", "Exp", "Log"}
RoundOps == {"Floor", "Ceil", "Round"}
CmpOps == {"LT", "GT", "LTE", "GTE", "EQ", "NEQ"}
OpCodes ==
    {"Const", "NoOp", "UnboundVar", "Divide", "ATan2", "Abs", "And", "Nand",
     "Or", "IntToFloat", "FloatToInt", "PlusImm", "TimesImm", "LoadImm", "Load"}
    \cup VarOps \cup ArithOps \cup UnaryFloatOps \cup RoundOps \cup CmpOps

DepFlags == {"DepX", "DepY", "DepT", "DepC", "DepMem", "DepUnbound"}

\* ------------------------------------------------------------ float helpers
\* (float) i
toFloat(i) == i * 2

\* 1.0f
One == toFloat(1)

\* (int) f : truncation toward zero
toInt(f) == IF f >= 0 THEN f \div One ELSE -((-f) \div One)


\* f * g is a count of halves only when the product of the counts is even
fmulOk(f, g) == (f * g) % One = 0
fmul(f, g) == (f * g) \div One

\* |i|
abs(i) == IF i >= 0 THEN i ELSE -i

\* f / g is a count of halves only when g # 0 and g divides 2f
fdivOk(f, g) == g # 0 /\ (abs(f) * One) % abs(g) = 0
fdiv(f, g) == IF (f >= 0) = (g > 0)
              THEN (abs(f) * One) \div abs(g)
              ELSE -((abs(f) * One) \div abs(g))

\* ----------------------------------------------------------------- the store
VARIABLES nodes, allNodes, floatInstances, intInstances, varInstances,
          last, halted

vars == <<nodes, allNodes, floatInstances, intInstances, varInstances,
          last, halted>>

\* The process-wide store as one value, threaded through the calls.
\* uaf records whether the call in progress has read a deleted node.
Store == [nodes |-> nodes, all |-> allNodes, fI |-> floatInstances,
          iI |-> intInstances, vI |-> varInstances, uaf |-> FALSE]

EmptyMap == [k \in {} |-> 0]
EmptyStore == [nodes |-> <<>>, all |-> <<>>, fI |-> EmptyMap,
               iI |-> EmptyMap, vI |-> EmptyMap, uaf |-> FALSE]

Range(s) == {s[i] : i \in DOMAIN s}
Live(st) == Range(st.all)
mapGet(m, k) == IF k \in DOMAIN m THEN m[k] ELSE 0
mapPut(m, k, v) == [x \in DOMAIN m \cup {k} |-> IF x = k THEN v ELSE m[x]]

\* What a call gives back: the store after it, the returned pointer, and how it
\* ended: "ok", "fatal" (panic / assert: exit(-1)), "diverged" (the recursion
\* re-entered a call with the same arguments on the same store), "ub" (a read
\* past the end of a vector), or "oob" (outside the modelled values or depth).
Ok(st, r) == [st |-> st, r |-> r, status |-> "ok"]
Stop(st, how) == [st |-> st, r |-> 0, status |-> how]

\* sequencing: the call K made on the result of a call that returned, or the
\* way that call ended
Then(res, K(_)) == IF res.status # "ok" THEN Stop(res.st, res.status) ELSE K(res)

\* level from deps
levelOf(deps) ==
    IF "DepUnbound" \in deps THEN 99
    ELSE IF "DepC" \in deps \/ "DepMem" \in deps THEN 4
    ELSE IF "DepX" \in deps THEN 3
    ELSE IF "DepY" \in deps THEN 2
    ELSE IF "DepT" \in deps THEN 1
    ELSE 0

\* the self-bit the constructor sets for an opcode
selfDeps(opcode) ==
    IF opcode = "VarX" THEN {"DepX"}
    ELSE IF opcode = "VarY" THEN {"DepY"}
    ELSE IF opcode = "VarT" THEN {"DepT"}
    ELSE IF opcode = "VarC" THEN {"DepC"}
    ELSE IF opcode = "Load" THEN {"DepMem"}
    ELSE IF opcode = "UnboundVar" THEN {"DepUnbound"}
    ELSE {}

\* how many times node n occurs in the list inputs
occurrences(inputs, n) == Cardinality({i \in DOMAIN inputs : inputs[i] = n})

\* bitwise a & b, a & ~b and a | b on non-negative operands
RECURSIVE bitAnd(_, _)
bitAnd(a, b) ==
    IF a = 0 \/ b = 0 THEN 0
    ELSE (a % 2) * (b % 2) + 2 * bitAnd(a \div 2, b \div 2)

RECURSIVE bitAndNot(_, _)
bitAndNot(a, b) ==
    IF a = 0 THEN 0
    ELSE (a % 2) * (1 - (b % 2)) + 2 * bitAndNot(a \div 2, b \div 2)

\* a | b on two's-complement ints (~a = -a - 1)
bitOr(a, b) ==
    IF a >= 0 /\ b >= 0 THEN a + b - bitAnd(a, b)
    ELSE IF a < 0 /\ b < 0 THEN -bitAnd(-a - 1, -b - 1) - 1
    ELSE IF a < 0 THEN -bitAndNot(-a - 1, b) - 1
    ELSE -bitAndNot(-b - 1, a) - 1

RECURSIVE repeat(_, _)
repeat(x, k) == IF k = 0 THEN <<>> ELSE <<x>> \o repeat(x, k - 1)

\* IRNode::IRNode(float v)
newFloatNode(st, v) ==
    LET id == Len(st.nodes) + 1
        rec == [type |-> Float_, op |-> "Const", inputs |-> <<>>, outputs |-> <<>>,
                ival |-> 0, fval |-> v, deps |-> {}, level |-> 0, marked |-> FALSE]
    IN  Ok([st EXCEPT !.nodes = Append(@, rec), !.all = Append(@, id)], id)

\* IRNode::IRNode(int v)
newIntNode(st, v) ==
    LET id == Len(st.nodes) + 1
        rec == [type |-> Int_, op |-> "Const", inputs |-> <<>>, outputs |-> <<>>,
                ival |-> v, fval |-> 0, deps |-> {}, level |-> 0, marked |-> FALSE]
    IN  Ok([st EXCEPT !.nodes = Append(@, rec), !.all = Append(@, id)], id)

\* a constructor that leaves the deps of the inputs out
newNodeOwnDeps(st, t, opcode, inputs, iv, fv) ==
    LET id == Len(st.nodes) + 1
        rec == [type |-> t, op |-> opcode, inputs |-> inputs, outputs |-> <<>>,
                ival |-> iv, fval |-> fv, deps |-> selfDeps(opcode),
                level |-> levelOf(selfDeps(opcode)), marked |-> FALSE]
        withBackEdges == [i \in DOMAIN st.nodes |->
                     [st.nodes[i] EXCEPT
                        !.outputs = @ \o repeat(id, occurrences(inputs, i))]]
    IN  Ok([st EXCEPT !.nodes = Append(withBackEdges, rec), !.all = Append(@, id)], id)

\* a constructor that puts the back edge at the front of outputs
newNodeFront(st, t, opcode, inputs, iv, fv) ==
    LET id == Len(st.nodes) + 1
        deps == selfDeps(opcode)
                  \cup UNION {st.nodes[inputs[i]].deps : i \in DOMAIN inputs}
        rec == [type |-> t, op |-> opcode, inputs |-> inputs, outputs |-> <<>>,
                ival |-> iv, fval |-> fv, deps |-> deps, level |-> levelOf(deps),
                marked |-> FALSE]
        withBackEdges == [i \in DOMAIN st.nodes |->
                     [st.nodes[i] EXCEPT
                        !.outputs = repeat(id, occurrences(inputs, i)) \o @]]
    IN  Ok([st EXCEPT !.nodes = Append(withBackEdges, rec), !.all = Append(@, id)], id)

\* IRNode::IRNode(Type, OpCode, vector<IRNode *>, int, float)
newNode(st, t, opcode, inputs, iv, fv) ==
    LET id == Len(st.nodes) + 1
        deps == selfDeps(opcode)
                  \cup UNION {st.nodes[inputs[i]].deps : i \in DOMAIN inputs}
        rec == [type |-> t, op |-> opcode, inputs |-> inputs, outputs |-> <<>>,
                ival |-> iv, fval |-> fv, deps |-> deps, level |-> levelOf(deps),
                marked |-> FALSE]
        withBackEdges == [i \in DOMAIN st.nodes |->
                     [st.nodes[i] EXCEPT
                        !.outputs = @ \o repeat(id, occurrences(inputs, i))]]
    IN  Ok([st EXCEPT !.nodes = Append(withBackEdges, rec), !.all = Append(@, id)], id)

\* IRNode::make(float v)
makeFloat(st, v) ==
    IF mapGet(st.fI, v) = 0
    THEN Then(newFloatNode(st, v), LAMBDA n :
              Ok([n.st EXCEPT !.fI = mapPut(@, v, n.r)], n.r))
    ELSE Ok(st, st.fI[v])

\* a make(int v) that skips the lookup in intInstances
makeIntFresh(st, v) ==
    Then(newIntNode(st, v), LAMBDA n :
         Ok([n.st EXCEPT !.iI = mapPut(@, v, n.r)], n.r))

\* IRNode::make(int v)
makeInt(st, v) ==
    IF mapGet(st.iI, v) = 0
    THEN Then(newIntNode(st, v), LAMBDA n :
              Ok([n.st EXCEPT !.iI = mapPut(@, v, n.r)], n.r))
    ELSE Ok(st, st.iI[v])

\* ------------------------------------------------------------------- make
\* ctx carries what the C++ leaves open and the call stack:
\*   stale : whether the freed memory of a deleted node still reads as the node
\*           it held (TRUE) or as something that matches no request (FALSE);
\*   rtl   : whether the two make calls that are arguments of one call are
\*           evaluated right to left (the order is unspecified);
\*   stk   : the make calls in progress, each with the store it was entered on.
Ctx(stale, rtl) == [stale |-> stale, rtl |-> rtl, stk |-> {}]

RECURSIVE make(_, _, _, _, _, _)
RECURSIVE as(_, _, _, _)
RECURSIVE rebalanceSum(_, _, _)

\* inputs[0] = inputs[0]->as(t); inputs[1] = inputs[1]->as(t);
as2(ctx, st, inputs, t) ==
    Then(as(ctx, st, inputs[1], t), LAMBDA a :
    Then(as(ctx, a.st, inputs[2], t), LAMBDA b :
         Ok(b.st, [inputs EXCEPT ![1] = a.r, ![2] = b.r])))

\* inputs[0] = inputs[0]->as(t);
as1(ctx, st, inputs, t) ==
    Then(as(ctx, st, inputs[1], t), LAMBDA a :
         Ok(a.st, [inputs EXCEPT ![1] = a.r]))

\* the result of the typing stage: the result type, the coerced inputs, and
\* the node to return at once (0: none)
Typed(st, t, inputs) == Ok(st, [t |-> t, inputs |-> inputs, early |-> 0])
TypedOf(c, t) == Then(c, LAMBDA x : Typed(x.st, t, x.r))

\* a typing stage that never returns its input early
TypedNotEarly(st, inputs, n) ==
    Ok(st, [t |-> st.nodes[n].type, inputs |-> inputs, early |-> 0])

TypedEarly(st, inputs, n) ==
    Ok(st, [t |-> st.nodes[n].type, inputs |-> inputs, early |-> n])

\* make: "First, type inference and coercion" (the switch on opcode)
typeAndCoerce(ctx, st, opcode, inputs) ==
    LET n == Len(inputs)
        ty(i) == st.nodes[inputs[i]].type
    IN
    IF opcode = "Const" THEN Stop(st, "fatal")
    ELSE IF opcode = "NoOp" THEN
        IF n # 1 THEN Stop(st, "fatal")
        ELSE Typed(st, ty(1), inputs)
    ELSE IF opcode \in VarOps \cup {"UnboundVar"} THEN
        IF n # 0 THEN Stop(st, "fatal")
        ELSE Typed(st, Int_, inputs)
    ELSE IF opcode \in ArithOps THEN
        IF n # 2 THEN Stop(st, "fatal")
        ELSE IF ty(1) = Float_ \/ ty(2) = Float_
        THEN TypedOf(as2(ctx, st, inputs, Float_), Float_)
        ELSE TypedOf(as2(ctx, st, inputs, Int_), Int_)
    ELSE IF opcode \in {"Divide", "ATan2"} THEN
        \* no assert here: with fewer than two inputs, inputs[0] or inputs[1]
        \* is read past the end of the vector
        IF n < 2 THEN Stop(st, "ub")
        ELSE TypedOf(as2(ctx, st, inputs, Float_), Float_)
    ELSE IF opcode \in UnaryFloatOps THEN
        IF n # 1 THEN Stop(st, "fatal")
        ELSE TypedOf(as1(ctx, st, inputs, Float_), Float_)
    ELSE IF opcode = "Abs" THEN
        IF n # 1 THEN Stop(st, "fatal")
        ELSE IF ty(1) = Bool_ THEN TypedEarly(st, inputs, inputs[1])
        ELSE Typed(st, ty(1), inputs)
    ELSE IF opcode \in RoundOps THEN
        IF n # 1 THEN Stop(st, "fatal")
        ELSE IF ty(1) # Float_ THEN TypedEarly(st, inputs, inputs[1])
        ELSE Typed(st, Float_, inputs)
    ELSE IF opcode \in CmpOps THEN
        IF n # 2 THEN Stop(st, "fatal")
        ELSE IF ty(1) = Float_ \/ ty(2) = Float_
        THEN TypedOf(as2(ctx, st, inputs, Float_), Bool_)
        ELSE TypedOf(as2(ctx, st, inputs, Bool_), Bool_)
    ELSE IF opcode \in {"And", "Nand"} THEN
        IF n # 2 THEN Stop(st, "fatal")
        ELSE TypedOf(as1(ctx, st, inputs, Bool_), ty(2))
    ELSE IF opcode = "Or" THEN
        IF n # 2 THEN Stop(st, "fatal")
        ELSE IF ty(1) = Float_ \/ ty(2) = Float_
        THEN TypedOf(as2(ctx, st, inputs, Float_), Float_)
        ELSE IF ty(1) = Int_ \/ ty(1) = Int_
        THEN TypedOf(as2(ctx, st, inputs, Int_), Int_)
        ELSE TypedOf(as2(ctx, st, inputs, Bool_), Bool_)
    ELSE IF opcode = "IntToFloat" THEN
        IF n # 1 \/ ty(1) # Int_ THEN Stop(st, "fatal")
        ELSE Typed(st, Float_, inputs)
    ELSE IF opcode = "FloatToInt" THEN
        IF n # 1 \/ ty(1) # Float_ THEN Stop(st, "fatal")
        ELSE Typed(st, Int_, inputs)
    ELSE IF opcode \in {"PlusImm", "TimesImm"} THEN
        IF n # 1 THEN Stop(st, "fatal")
        ELSE Typed(st, Int_, inputs)
    ELSE \* LoadImm, Load
        IF n # 1 THEN Stop(st, "fatal")
        ELSE TypedOf(as1(ctx, st, inputs, Int_), Float_)

\* a fold guard that never lets make fold
noInputsConst(st, inputs) == FALSE

\* make: "Constant folding": whether every input has deps == 0
allInputsConst(st, inputs) ==
    Len(inputs) > 0 /\ \A i \in DOMAIN inputs : st.nodes[inputs[i]].deps = {}

\* the opcodes the switch of the constant folding has a case for
FoldOps == {"Plus", "Minus", "Times", "PlusImm", "TimesImm", "Divide", "And",
            "Or", "Nand", "IntToFloat", "FloatToInt"}

\* make: "Constant folding": the switch, for an opcode of FoldOps
foldConst(st, opcode, t, inputs, ival) ==
    LET iv(i) == st.nodes[inputs[i]].ival
        fv(i) == st.nodes[inputs[i]].fval
    IN
    IF opcode = "Plus" THEN
        IF t = Float_ THEN makeFloat(st, fv(1) + fv(2)) ELSE makeInt(st, iv(1) + iv(2))
    ELSE IF opcode = "Minus" THEN
        IF t = Float_ THEN makeFloat(st, fv(1) - fv(2)) ELSE makeInt(st, iv(1) - iv(2))
    ELSE IF opcode = "Times" THEN
        IF t = Float_
        THEN (IF fmulOk(fv(1), fv(2)) THEN makeFloat(st, fmul(fv(1), fv(2)))
              ELSE Stop(st, "oob"))
        ELSE makeInt(st, iv(1) * iv(2))
    ELSE IF opcode = "PlusImm" THEN makeInt(st, iv(1) + ival)
    ELSE IF opcode = "TimesImm" THEN makeInt(st, iv(1) * ival)
    ELSE IF opcode = "Divide" THEN
        IF fdivOk(fv(1), fv(2)) THEN makeFloat(st, fdiv(fv(1), fv(2)))
        ELSE Stop(st, "oob")
    ELSE IF opcode = "And" THEN
        IF t = Float_ THEN makeFloat(st, IF iv(1) # 0 THEN fv(2) ELSE 0)
        ELSE makeInt(st, IF iv(1) # 0 THEN iv(2) ELSE 0)
    ELSE IF opcode = "Or" THEN
        IF t = Float_ THEN makeFloat(st, fv(1) + fv(2))
        ELSE makeInt(st, bitOr(iv(1), iv(2)))
    ELSE IF opcode = "Nand" THEN
        IF t = Float_ THEN makeFloat(st, IF iv(1) = 0 THEN fv(2) ELSE 0)
        ELSE makeInt(st, IF iv(1) = 0 THEN iv(2) ELSE 0)
    ELSE IF opcode = "IntToFloat" THEN makeFloat(st, toFloat(iv(1)))
    ELSE makeInt(st, toInt(fv(1)))   \* FloatToInt

\* make(op, in) with the default ival and fval
make0(ctx, st, opcode, inputs) == make(ctx, st, opcode, inputs, 0, 0)

\* make(Plus, make(op1, in1), make(op2, in2)): the two arguments in the order
\* ctx.rtl gives, then the Plus
plusOfTwo(ctx, st, op1, in1, op2, in2) ==
    IF ctx.rtl
    THEN Then(make0(ctx, st, op2, in2), LAMBDA r2 :
         Then(make0(ctx, r2.st, op1, in1), LAMBDA r1 :
              make0(ctx, r1.st, "Plus", <<r1.r, r2.r>>)))
    ELSE Then(make0(ctx, st, op1, in1), LAMBDA r1 :
         Then(make0(ctx, r1.st, op2, in2), LAMBDA r2 :
              make0(ctx, r2.st, "Plus", <<r1.r, r2.r>>)))

\* make: "x/y = x*(1/y)"
divideHoist(ctx, st, inputs) ==
    Then(makeFloat(st, One), LAMBDA one :
    Then(make0(ctx, one.st, "Divide", <<one.r, inputs[2]>>), LAMBDA inv :
         make0(ctx, inv.st, "Times", <<inputs[1], inv.r>>)))

\* the x, a, b the two Times rewrites pick when an operand has opcode inner
\* (found: whether one has), x already the higher level of x and a
pickXAB(st, inputs, inner) ==
    LET i1 == st.nodes[inputs[1]]
        i2 == st.nodes[inputs[2]]
        lvl(k) == st.nodes[k].level
        viaFirst == i1.op = inner
        found == viaFirst \/ i2.op = inner
        src == IF viaFirst THEN i1 ELSE i2
        b == IF viaFirst THEN inputs[2] ELSE inputs[1]
    IN  IF ~found THEN [found |-> FALSE, x |-> 0, a |-> 0, b |-> 0]
        ELSE LET x0 == IF inner = "Plus" THEN src.inputs[2] ELSE src.inputs[1]
                 a0 == IF inner = "Plus" THEN src.inputs[1] ELSE src.inputs[2]
                 sw == lvl(x0) < lvl(a0)
             IN  [found |-> TRUE, x |-> IF sw THEN a0 ELSE x0,
                  a |-> IF sw THEN x0 ELSE a0, b |-> b]

\* "it's only worth rebalancing if a and b are both lower level than x"
worthIt(st, p) ==
    /\ p.found
    /\ st.nodes[p.x].level > st.nodes[p.a].level
    /\ st.nodes[p.x].level > st.nodes[p.b].level

\* make: "(x+a)*b = x*b + a*b"
distribute(ctx, st, p) ==
    plusOfTwo(ctx, st, "Times", <<p.x, p.b>>, "Times", <<p.a, p.b>>)

\* make: "deal with const integer a": Times of a PlusImm; make(ival) is an
\* argument of the second Times, whose store it changes first
timesOfPlusImm(ctx, st, inputs) ==
    IF ctx.rtl
    THEN Then(makeInt(st, st.nodes[inputs[1]].ival), LAMBDA k :
              plusOfTwo(ctx, k.st,
                        "Times", <<st.nodes[inputs[1]].inputs[1], inputs[2]>>,
                        "Times", <<inputs[2], k.r>>))
    ELSE Then(make0(ctx, st, "Times", <<st.nodes[inputs[1]].inputs[1], inputs[2]>>),
              LAMBDA l :
         Then(makeInt(l.st, st.nodes[inputs[1]].ival), LAMBDA k :
         Then(make0(ctx, k.st, "Times", <<inputs[2], k.r>>), LAMBDA r :
              make0(ctx, r.st, "Plus", <<l.r, r.r>>))))

\* make: "(x*a)*b = x*(a*b)"
reassociate(ctx, st, p) ==
    Then(make0(ctx, st, "Times", <<p.a, p.b>>), LAMBDA ab :
         make0(ctx, ab.st, "Times", <<p.x, ab.r>>))

\* make: "Rebalance summations ...": inputs[i] = inputs[i]->rebalanceSum(), from i on
RECURSIVE rebalanceInputs(_, _, _, _)
rebalanceInputs(ctx, st, inputs, i) ==
    IF i > Len(inputs) THEN Ok(st, inputs)
    ELSE Then(rebalanceSum(ctx, st, inputs[i]), LAMBDA r :
              rebalanceInputs(ctx, r.st, [inputs EXCEPT ![i] = r.r], i + 1))

\* a make of a variable that skips the lookup in varInstances
makeVarFresh(st, t, opcode) ==
    Then(newNode(st, t, opcode, <<>>, 0, 0), LAMBDA n :
         Ok([n.st EXCEPT !.vI = mapPut(@, opcode, n.r)], n.r))

\* make: "Return a single unique instance of each variable"
makeVar(st, t, opcode) ==
    IF mapGet(st.vI, opcode) = 0
    THEN Then(newNode(st, t, opcode, <<>>, 0, 0), LAMBDA n :
              Ok([n.st EXCEPT !.vI = mapPut(@, opcode, n.r)], n.r))
    ELSE Ok(st, st.vI[opcode])

\* make: Load fusion: whether it applies, and the base and offset of the LoadImm
loadFusion(st, inputs, ival) ==
    LET a == st.nodes[inputs[1]]
        opOf(k) == st.nodes[k].op
        no == [hit |-> FALSE, base |-> 0, off |-> 0]
    IN  IF a.op = "Plus" THEN
            IF opOf(a.inputs[1]) = "Const"
            THEN [hit |-> TRUE, base |-> a.inputs[2],
                  off |-> st.nodes[a.inputs[1]].ival + ival]
            ELSE IF opOf(a.inputs[2]) = "Const"
            THEN [hit |-> TRUE, base |-> a.inputs[1],
                  off |-> st.nodes[a.inputs[2]].ival + ival]
            ELSE no
        ELSE IF a.op = "Minus" /\ opOf(a.inputs[2]) = "Const"
        THEN [hit |-> TRUE, base |-> a.inputs[1],
              off |-> -st.nodes[a.inputs[2]].ival + ival]
        ELSE IF a.op = "PlusImm"
        THEN [hit |-> TRUE, base |-> a.inputs[1], off |-> a.ival + ival]
        ELSE no

\* make: TimesImm fusion: whether it applies, and the operand and immediate
timesImmFusion(st, inputs) ==
    LET l == st.nodes[inputs[1]]
        r == st.nodes[inputs[2]]
    IN  IF l.op = "Const" THEN [hit |-> TRUE, base |-> inputs[2], imm |-> l.ival]
        ELSE IF r.op = "Const" THEN [hit |-> TRUE, base |-> inputs[1], imm |-> r.ival]
        ELSE [hit |-> FALSE, base |-> 0, imm |-> 0]

\* the test of one CSE candidate; a deleted candidate is read from freed memory
candidateMatches(ctx, st, cand, t, opcode, inputs, ival, fval) ==
    LET c == st.nodes[cand]
    IN  /\ cand \in Live(st) \/ ctx.stale
        /\ c.ival = ival
        /\ c.fval = fval
        /\ c.op = opcode
        /\ c.type = t
        /\ c.inputs = inputs

\* a scan of inputs[0]->outputs that matches no candidate
cseNever(ctx, st, t, opcode, inputs, ival, fval) == 0

\* make: "Common subexpression elimination": the index in inputs[0]->outputs of
\* the first candidate that matches (0: none)
cseIndex(ctx, st, t, opcode, inputs, ival, fval) ==
    LET outs == st.nodes[inputs[1]].outputs
        hits == {i \in DOMAIN outs :
                   candidateMatches(ctx, st, outs[i], t, opcode, inputs, ival, fval)}
    IN  IF hits = {} THEN 0 ELSE CHOOSE i \in hits : \A j \in hits : i <= j

\* whether that scan reads a deleted node: inputs[0] itself, or a candidate up
\* to the one it returns
cseReadsFreed(st, inputs, idx) ==
    LET outs == st.nodes[inputs[1]].outputs
        upto == IF idx = 0 THEN Len(outs) ELSE idx
    IN  \/ inputs[1] \notin Live(st)
        \/ \E i \in 1..upto : outs[i] \notin Live(st)

\* make: the end of the CSE scan that stopped at index idx (0: no match):
\* "reuse the old node", or "make a new node"
reuseOrConstruct(st, t, opcode, inputs, ival, fval, idx) ==
    IF idx # 0
    THEN Ok([st EXCEPT !.uaf = @ \/ cseReadsFreed(st, inputs, idx)],
            st.nodes[inputs[1]].outputs[idx])
    ELSE newNode([st EXCEPT !.uaf = @ \/ cseReadsFreed(st, inputs, idx)],
                 t, opcode, inputs, ival, fval)

\* make: CSE, then "make a new node"
cseOrConstruct(ctx, st, t, opcode, inputs, ival, fval) ==
    IF Len(inputs) = 0 THEN newNode(st, t, opcode, inputs, ival, fval)
    ELSE reuseOrConstruct(st, t, opcode, inputs, ival, fval,
                          cseIndex(ctx, st, t, opcode, inputs, ival, fval))

\* the end of make with UnboundVar uniqued like a variable
fuseOrConstructUniqued(ctx, rb, t, opcode, ival, fval) ==
    IF opcode \in VarOps THEN makeVar(rb.st, t, opcode)
    ELSE IF opcode = "UnboundVar" THEN makeVar(rb.st, t, opcode)
    ELSE IF opcode \in {"Load", "LoadImm"} /\ loadFusion(rb.st, rb.r, ival).hit
    THEN make(ctx, rb.st, "LoadImm", <<loadFusion(rb.st, rb.r, ival).base>>,
              loadFusion(rb.st, rb.r, ival).off, 0)
    ELSE IF opcode = "Times" /\ t = Int_ /\ timesImmFusion(rb.st, rb.r).hit
    THEN make(ctx, rb.st, "TimesImm", <<timesImmFusion(rb.st, rb.r).base>>,
              timesImmFusion(rb.st, rb.r).imm, 0)
    ELSE cseOrConstruct(ctx, rb.st, t, opcode, rb.r, ival, fval)

\* make: variable uniquing, fusion, CSE and construction, on the rebalanced
\* inputs rb.r
fuseOrConstruct(ctx, rb, t, opcode, ival, fval) ==
    IF opcode \in VarOps THEN makeVar(rb.st, t, opcode)
    ELSE IF opcode = "UnboundVar" THEN newNode(rb.st, t, opcode, <<>>, 0, 0)
    ELSE IF opcode \in {"Load", "LoadImm"} /\ loadFusion(rb.st, rb.r, ival).hit
    THEN make(ctx, rb.st, "LoadImm", <<loadFusion(rb.st, rb.r, ival).base>>,
              loadFusion(rb.st, rb.r, ival).off, 0)
    ELSE IF opcode = "Times" /\ t = Int_ /\ timesImmFusion(rb.st, rb.r).hit
    THEN make(ctx, rb.st, "TimesImm", <<timesImmFusion(rb.st, rb.r).base>>,
              timesImmFusion(rb.st, rb.r).imm, 0)
    ELSE cseOrConstruct(ctx, rb.st, t, opcode, rb.r, ival, fval)

\* make: from "Rebalance summations" to the end
finish(ctx, st, t, opcode, inputs, ival, fval) ==
    IF opcode \notin {"Plus", "Minus", "PlusImm"}
    THEN Then(rebalanceInputs(ctx, st, inputs, 1), LAMBDA rb :
              fuseOrConstruct(ctx, rb, t, opcode, ival, fval))
    ELSE fuseOrConstruct(ctx, Ok(st, inputs), t, opcode, ival, fval)

\* make: the Times rewrites, in the order the code tries them
timesRewrites(ctx, st, t, inputs, ival, fval) ==
    IF worthIt(st, pickXAB(st, inputs, "Plus"))
    THEN distribute(ctx, st, pickXAB(st, inputs, "Plus"))
    ELSE IF st.nodes[inputs[1]].op = "PlusImm"
    THEN timesOfPlusImm(ctx, st, inputs)
    ELSE IF worthIt(st, pickXAB(st, inputs, "Times"))
    THEN reassociate(ctx, st, pickXAB(st, inputs, "Times"))
    ELSE finish(ctx, st, t, "Times", inputs, ival, fval)

\* make: "Strength reduction rules"
strengthReduce(ctx, st, t, opcode, inputs, ival, fval) ==
    IF opcode = "NoOp" THEN Ok(st, inputs[1])
    ELSE IF opcode = "Divide"
            /\ st.nodes[inputs[2]].level < st.nodes[inputs[1]].level
    THEN divideHoist(ctx, st, inputs)
    ELSE IF opcode = "Times" THEN timesRewrites(ctx, st, t, inputs, ival, fval)
    ELSE finish(ctx, st, t, opcode, inputs, ival, fval)

\* make: what follows the typing stage, whose result is ty
foldOrBuild(ctx, ty, opcode, ival, fval) ==
    IF ty.r.early # 0 THEN Ok(ty.st, ty.r.early)
    ELSE IF opcode \in FoldOps /\ allInputsConst(ty.st, ty.r.inputs)
    THEN foldConst(ty.st, opcode, ty.r.t, ty.r.inputs, ival)
    ELSE strengthReduce(ctx, ty.st, ty.r.t, opcode, ty.r.inputs, ival, fval)

\* the call stack with one more make call
pushed(ctx, frame) == [ctx EXCEPT !.stk = @ \cup {frame}]

\* IRNode::make(OpCode, vector<IRNode *>, int, float)
make(ctx, st, opcode, inputs, ival, fval) ==
    IF <<opcode, inputs, ival, fval, st>> \in ctx.stk THEN Stop(st, "diverged")
    ELSE IF Cardinality(ctx.stk) >= MaxDepth THEN Stop(st, "oob")
    ELSE Then(typeAndCoerce(pushed(ctx, <<opcode, inputs, ival, fval, st>>),
                            st, opcode, inputs),
              LAMBDA ty :
                foldOrBuild(pushed(ctx, <<opcode, inputs, ival, fval, st>>),
                            ty, opcode, ival, fval))

\* IRNode::as
as(ctx, st, n, t) ==
    IF t = st.nodes[n].type THEN Ok(st, n)
    ELSE IF st.nodes[n].type = Int_ /\ t = Float_
    THEN make0(ctx, st, "IntToFloat", <<n>>)
    ELSE IF st.nodes[n].type = Int_ /\ t = Bool_
    THEN Then(makeInt(st, 0), LAMBDA z : make0(ctx, z.st, "NEQ", <<n, z.r>>))
    ELSE IF st.nodes[n].type = Bool_ /\ t = Float_
    THEN Then(makeFloat(st, One), LAMBDA k : make0(ctx, k.st, "And", <<n, k.r>>))
    ELSE IF st.nodes[n].type = Bool_ /\ t = Int_
    THEN Then(makeInt(st, 1), LAMBDA k : make0(ctx, k.st, "And", <<n, k.r>>))
    ELSE IF st.nodes[n].type = Float_ /\ t = Bool_
    THEN Then(makeFloat(st, 0), LAMBDA z : make0(ctx, z.st, "NEQ", <<n, z.r>>))
    ELSE IF st.nodes[n].type = Float_ /\ t = Int_
    THEN make0(ctx, st, "FloatToInt", <<n>>)
    ELSE Stop(st, "fatal")

\* ------------------------------------------------------------ rebalanceSum
SumOps == {"Plus", "Minus", "PlusImm"}

\* IRNode::collectSum: the terms of n in order, each [n, pos]; the PlusImm case
\* calls make(ival), so the store is threaded
RECURSIVE collectSum(_, _, _)
collectSum(st, n, positive) ==
    IF st.nodes[n].op = "Plus" THEN
        Then(collectSum(st, st.nodes[n].inputs[1], positive), LAMBDA l :
        Then(collectSum(l.st, st.nodes[n].inputs[2], positive), LAMBDA r :
             Ok(r.st, l.r \o r.r)))
    ELSE IF st.nodes[n].op = "Minus" THEN
        Then(collectSum(st, st.nodes[n].inputs[1], positive), LAMBDA l :
        Then(collectSum(l.st, st.nodes[n].inputs[2], ~positive), LAMBDA r :
             Ok(r.st, l.r \o r.r)))
    ELSE IF st.nodes[n].op = "PlusImm" THEN
        Then(collectSum(st, st.nodes[n].inputs[1], positive), LAMBDA l :
        Then(makeInt(l.st, st.nodes[n].ival), LAMBDA k :
             Ok(k.st, Append(l.r, [n |-> k.r, pos |-> TRUE]))))
    ELSE Ok(st, <<[n |-> n, pos |-> positive]>>)

\* rebalanceSum: "sort the non-const terms by level": the two nested loops,
\* from the pair (i, j) on
RECURSIVE sortTerms(_, _, _, _)
sortTerms(st, terms, i, j) ==
    IF i > Len(terms) THEN terms
    ELSE IF j > Len(terms) THEN sortTerms(st, terms, i + 1, i + 2)
    ELSE IF st.nodes[terms[i].n].level > st.nodes[terms[j].n].level
    THEN sortTerms(st, [terms EXCEPT ![i] = terms[j], ![j] = terms[i]], i, j + 1)
    ELSE sortTerms(st, terms, i, j + 1)

\* rebalanceSum: the signed sum of the constant terms, read from field fld
RECURSIVE constSum(_, _, _)
constSum(st, terms, fld) ==
    IF terms = <<>> THEN 0
    ELSE (IF terms[1].pos THEN 1 ELSE -1)
           * (IF fld = "fval" THEN st.nodes[terms[1].n].fval
              ELSE st.nodes[terms[1].n].ival)
         + constSum(st, Tail(terms), fld)

\* rebalanceSum: "extract out the const terms"
constTermsOf(st, terms) == SelectSeq(terms, LAMBDA term : st.nodes[term.n].op = "Const")
nonConstTermsOf(st, terms) ==
    SelectSeq(terms, LAMBDA term : st.nodes[term.n].op # "Const")

\* the running sum of rebalanceSum: the node t and its sign tPos
Acc(st, t, tPos) == Ok(st, [t |-> t, tPos |-> tPos])

\* rebalanceSum: the loop over nonConstTerms[i], i >= 1 (here from i on)
RECURSIVE remakeSum(_, _, _, _)
remakeSum(ctx, acc, terms, i) ==
    IF i > Len(terms) THEN acc
    ELSE IF acc.r.tPos = terms[i].pos
    THEN Then(make0(ctx, acc.st, "Plus", <<acc.r.t, terms[i].n>>), LAMBDA m :
              remakeSum(ctx, Acc(m.st, m.r, acc.r.tPos), terms, i + 1))
    ELSE IF acc.r.tPos
    THEN Then(make0(ctx, acc.st, "Minus", <<acc.r.t, terms[i].n>>), LAMBDA m :
              remakeSum(ctx, Acc(m.st, m.r, TRUE), terms, i + 1))
    ELSE Then(make0(ctx, acc.st, "Minus", <<terms[i].n, acc.r.t>>), LAMBDA m :
              remakeSum(ctx, Acc(m.st, m.r, TRUE), terms, i + 1))

\* rebalanceSum: "If we're building a float sum, the const term is innermost"
floatConstInner(ctx, st, type, consts, t, tPos) ==
    IF type = Float_ /\ constSum(st, consts, "fval") # 0
    THEN Then(makeFloat(st, constSum(st, consts, "fval")), LAMBDA k :
         Then(make0(ctx, k.st, IF tPos THEN "Plus" ELSE "Minus", <<k.r, t>>),
              LAMBDA m : Acc(m.st, m.r, tPos)))
    ELSE Acc(st, t, tPos)

\* rebalanceSum: "if we're building an int sum, the const term is outermost"
intConstOuter(ctx, acc, type, consts) ==
    IF type = Int_ /\ constSum(acc.st, consts, "ival") # 0
    THEN (IF acc.r.tPos
          THEN make(ctx, acc.st, "PlusImm", <<acc.r.t>>,
                    constSum(acc.st, consts, "ival"), 0)
          ELSE Then(makeInt(acc.st, constSum(acc.st, consts, "ival")), LAMBDA k :
                    make0(ctx, k.st, "Minus", <<k.r, acc.r.t>>)))
    ELSE Ok(acc.st, acc.r.t)

\* rebalanceSum: "remake the summation" from the constant terms and the
\* sorted non-constant terms
remake(ctx, st, type, consts, sorted) ==
    IF Len(sorted) = 0 THEN Stop(st, "ub")   \* nonConstTerms[0] of an empty vector
    ELSE Then(floatConstInner(ctx, st, type, consts, sorted[1].n, sorted[1].pos),
              LAMBDA inner :
         Then(remakeSum(ctx, inner, sorted, 2), LAMBDA acc :
              intConstOuter(ctx, acc, type, consts)))

\* IRNode::rebalanceSum
rebalanceSum(ctx, st, n) ==
    IF st.nodes[n].op \notin SumOps THEN Ok(st, n)
    ELSE Then(collectSum(st, n, TRUE), LAMBDA cs :
              remake(ctx, cs.st, st.nodes[n].type, constTermsOf(cs.st, cs.r),
                     sortTerms(cs.st, nonConstTermsOf(cs.st, cs.r), 1, 2)))

\* IRNode::optimize
optimize(ctx, st, n) == rebalanceSum(ctx, st, n)

\* ------------------------------------------------------ substitute and bind
\* a dep bit that is not the substituted variable's
depOfOther(var) == IF var = "VarT" THEN "DepC" ELSE "DepT"

\* the dep bit substitute tests for var
depOf(var) ==
    IF var = "VarC" THEN "DepC"
    ELSE IF var = "VarX" THEN "DepX"
    ELSE IF var = "VarY" THEN "DepY"
    ELSE "DepT"

RECURSIVE substitute(_, _, _, _, _)

\* substitute: "rebuild all the inputs", from input i on
RECURSIVE substituteInputs(_, _, _, _, _, _, _)
substituteInputs(ctx, st, inputs, i, var, val, acc) ==
    IF i > Len(inputs) THEN Ok(st, acc)
    ELSE Then(substitute(ctx, st, inputs[i], var, val), LAMBDA r :
              substituteInputs(ctx, r.st, inputs, i + 1, var, val, Append(acc, r.r)))

\* a substitute that rebuilds every receiver, also one without the dep of var
substituteAll(ctx, st, n, var, val) ==
    IF st.nodes[n].op = var THEN makeInt(st, val)
    ELSE IF var \notin VarOps THEN Stop(st, "fatal")
    ELSE Then(substituteInputs(ctx, st, st.nodes[n].inputs, 1, var, val, <<>>),
              LAMBDA ni : make(ctx, ni.st, st.nodes[n].op, ni.r,
                               st.nodes[n].ival, st.nodes[n].fval))

\* IRNode::substitute
substitute(ctx, st, n, var, val) ==
    IF st.nodes[n].op = var THEN makeInt(st, val)
    ELSE IF var \notin VarOps THEN Stop(st, "fatal")
    ELSE IF depOf(var) \in st.nodes[n].deps
    THEN Then(substituteInputs(ctx, st, st.nodes[n].inputs, 1, var, val, <<>>),
              LAMBDA ni : make(ctx, ni.st, st.nodes[n].op, ni.r,
                               st.nodes[n].ival, st.nodes[n].fval))
    ELSE Ok(st, n)

\* The receiver rebuilt bottom-up with make, the variable node replaced by
\* make(val) and every other leaf kept: what substitute is to agree with.
RECURSIVE rebuild(_, _, _, _, _)
RECURSIVE rebuildInputs(_, _, _, _, _, _, _)
rebuildInputs(ctx, st, inputs, i, var, val, acc) ==
    IF i > Len(inputs) THEN Ok(st, acc)
    ELSE Then(rebuild(ctx, st, inputs[i], var, val), LAMBDA r :
              rebuildInputs(ctx, r.st, inputs, i + 1, var, val, Append(acc, r.r)))

rebuild(ctx, st, n, var, val) ==
    IF st.nodes[n].op = var THEN makeInt(st, val)
    ELSE IF st.nodes[n].inputs = <<>> THEN Ok(st, n)
    ELSE Then(rebuildInputs(ctx, st, st.nodes[n].inputs, 1, var, val, <<>>),
              LAMBDA ni : make(ctx, ni.st, st.nodes[n].op, ni.r,
                               st.nodes[n].ival, st.nodes[n].fval))

RECURSIVE bind(_, _, _, _, _, _, _)

\* bind: the loop over the inputs, from input i on
RECURSIVE bindInputs(_, _, _, _, _, _, _, _, _)
bindInputs(ctx, st, inputs, i, x, y, t, c, acc) ==
    IF i > Len(inputs) THEN Ok(st, acc)
    ELSE Then(bind(ctx, st, inputs[i], x, y, t, c), LAMBDA r :
              bindInputs(ctx, r.st, inputs, i + 1, x, y, t, c, Append(acc, r.r)))

\* IRNode::bind
bind(ctx, st, n, x, y, t, c) ==
    IF "DepUnbound" \notin st.nodes[n].deps THEN Ok(st, n)
    ELSE IF n = x THEN make0(ctx, st, "VarX", <<>>)
    ELSE IF n = y THEN make0(ctx, st, "VarY", <<>>)
    ELSE IF n = c THEN make0(ctx, st, "VarC", <<>>)
    ELSE IF n = t THEN make0(ctx, st, "VarT", <<>>)
    ELSE Then(bindInputs(ctx, st, st.nodes[n].inputs, 1, x, y, t, c, <<>>),
              LAMBDA ni : make(ctx, ni.st, st.nodes[n].op, ni.r,
                               st.nodes[n].ival, st.nodes[n].fval))

\* ------------------------------------------------------------ the collector
\* IRNode::markDescendents(false) on node n, over the node records ns.  The
\* marked field of a deleted node is read from freed memory: its image when
\* stale, and otherwise a value equal to newMark, so that the walk stops there.
RECURSIVE markDescendents(_, _, _)
RECURSIVE markInputs(_, _, _, _)
markInputs(stale, ns, inputs, i) ==
    IF i > Len(inputs) THEN ns
    ELSE markInputs(stale, markDescendents(stale, ns, inputs[i]), inputs, i + 1)

markDescendents(stale, ns, n) ==
    IF ~ns[n].marked THEN ns
    ELSE LET below == markInputs(stale, ns, ns[n].inputs, 1)
         IN  [below EXCEPT ![n].marked = FALSE]

\* collectGarbage: "unmark those that are necessary", over the roots left
RECURSIVE markRoots(_, _, _)
markRoots(stale, ns, roots) ==
    IF roots = {} THEN ns
    ELSE LET r == CHOOSE x \in roots : \A y \in roots : x <= y
         IN  markRoots(stale, markDescendents(stale, ns, r), roots \ {r})

\* collectGarbage: the table a migration loop builds: the last survivor with a
\* key wins
tableOf(ns, survivors, keys, keyOf(_), member(_)) ==
    [k \in keys |->
        LET idx == {i \in DOMAIN survivors :
                      member(ns[survivors[i]]) /\ keyOf(ns[survivors[i]]) = k}
        IN  survivors[CHOOSE i \in idx : \A j \in idx : j <= i]]

\* IRNode::collectGarbage
collectGarbage(stale, st, saved) ==
    LET live == Live(st)
        \* "mark all nodes for death"
        marked0 == [i \in DOMAIN st.nodes |->
                      IF i \in live THEN [st.nodes[i] EXCEPT !.marked = TRUE]
                      ELSE IF stale THEN st.nodes[i]
                      ELSE [st.nodes[i] EXCEPT !.marked = FALSE]]
        marked1 == markRoots(stale, marked0, saved)
        newAllNodes == SelectSeq(st.all, LAMBDA n : ~marked1[n].marked)
        isFloatConst(nd) == nd.op = "Const" /\ nd.type = Float_
        isIntConst(nd) == nd.op = "Const" /\ nd.type # Float_
        isVar(nd) == nd.op \in VarOps
        surv == Range(newAllNodes)
        \* the image of freed memory keeps what the walk wrote to it
        after == [i \in DOMAIN st.nodes |->
                    IF i \in live \/ stale THEN marked1[i] ELSE st.nodes[i]]
    IN  [nodes |-> after,
         all |-> newAllNodes,
         fI |-> tableOf(marked1, newAllNodes,
                        {marked1[n].fval : n \in {m \in surv : isFloatConst(marked1[m])}},
                        LAMBDA nd : nd.fval, isFloatConst),
         iI |-> tableOf(marked1, newAllNodes,
                        {marked1[n].ival : n \in {m \in surv : isIntConst(marked1[m])}},
                        LAMBDA nd : nd.ival, isIntConst),
         vI |-> tableOf(marked1, newAllNodes,
                        {marked1[n].op : n \in {m \in surv : isVar(marked1[m])}},
                        LAMBDA nd : nd.op, isVar),
         \* unmarking a survivor reads the marked field of each of its inputs
         uaf |-> \E n \in surv : \E i \in DOMAIN marked1[n].inputs :
                    marked1[n].inputs[i] \notin live]

\* IRNode::clearAll.  No pointer of the store survives it, so the images of the
\* freed records are dropped with them.
clearAll(st) == EmptyStore

\* ---------------------------------------------------------- the state machine
\* the arity the asserts of make require of each opcode (Divide and ATan2,
\* which have no assert, read two inputs)
Arity(opcode) ==
    IF opcode \in VarOps \cup {"UnboundVar", "Const"} THEN 0
    ELSE IF opcode \in ArithOps \cup CmpOps \cup {"Divide", "ATan2", "And", "Nand", "Or"}
    THEN 2
    ELSE 1

\* the opcodes whose ival the pipeline reads
ImmOps == {"PlusImm", "TimesImm", "LoadImm", "Load"}

NoCall == [call |-> "none", op |-> "", args |-> <<>>, ival |-> 0, ret |-> 0,
           status |-> "ok", uaf |-> FALSE, pre |-> 0]

Call(name, op, args, ival, res) ==
    [call |-> name, op |-> op, args |-> args, ival |-> ival, ret |-> res.r,
     status |-> res.status, uaf |-> res.st.uaf, pre |-> Len(nodes)]

Init ==
    /\ nodes = <<>>
    /\ allNodes = <<>>
    /\ floatInstances = EmptyMap
    /\ intInstances = EmptyMap
    /\ varInstances = EmptyMap
    /\ last = NoCall
    /\ halted = FALSE

\* the store after a call that returned
SetStore(st) ==
    /\ nodes' = st.nodes
    /\ allNodes' = st.all
    /\ floatInstances' = st.fI
    /\ intInstances' = st.iI
    /\ varInstances' = st.vI

\* The effect of one client call with result res, for a client that allocates
\* at most cap records.  A call that leaves the modelled values, or needs more
\* than cap records, is not taken; a call that ends in exit(-1), in unbounded
\* recursion or in a read past the end of a vector ends the process.
Finish(cap, name, op, args, ival, res) ==
    /\ ~halted
    /\ res.status # "oob"
    /\ Len(res.st.nodes) <= cap
    /\ last' = Call(name, op, args, ival, res)
    /\ IF res.status = "ok"
       THEN SetStore(res.st) /\ halted' = FALSE
       ELSE /\ halted' = TRUE
            /\ UNCHANGED <<nodes, allNodes, floatInstances, intInstances, varInstances>>

\* the choices the C++ leaves open, where they can matter
Stales == IF Len(nodes) > Len(allNodes) THEN BOOLEAN ELSE {FALSE}
Orders(op) == IF op \in {"Times", "Divide"} THEN BOOLEAN ELSE {FALSE}

LiveNodes == Range(allNodes)

\* a set of pointers as the ascending list of its members
RECURSIVE SetToSeq(_)
SetToSeq(S) ==
    IF S = {} THEN <<>>
    ELSE LET m == CHOOSE x \in S : \A y \in S : x <= y
         IN  <<m>> \o SetToSeq(S \ {m})

ArgLists(k) == [1..k -> LiveNodes]

\* make(int v)
MakeIntCall(cap, vals) ==
    \E v \in vals :
        Finish(cap, "makeInt", "Const", <<>>, v, makeInt(Store, v))

\* make(float v)
MakeFloatCall(cap, vals) ==
    \E v \in vals :
        Finish(cap, "makeFloat", "Const", <<>>, v, makeFloat(Store, v))

\* make(opcode, inputs..., ival) with as many live inputs as the opcode takes
MakeCall(cap, ops, ivals) ==
    \E op \in ops : \E args \in ArgLists(Arity(op)) :
    \E ival \in (IF op \in ImmOps THEN ivals ELSE {0}) :
    \E stale \in Stales : \E rtl \in Orders(op) :
        Finish(cap, "make", op, args, ival,
               make(Ctx(stale, rtl), Store, op, args, ival, 0))

\* the most inputs the overload make(opcode, input1, ..., input4) passes on
MaxInputs == 4

\* make(opcode, input1, ..., input4, ival) with any number of live inputs
MakeAnyCall(cap, ops, ivals) ==
    \E op \in ops : \E k \in 0..MaxInputs : \E args \in ArgLists(k) :
    \E ival \in (IF op \in ImmOps THEN ivals ELSE {0}) :
    \E stale \in Stales : \E rtl \in Orders(op) :
        Finish(cap, "make", op, args, ival,
               make(Ctx(stale, rtl), Store, op, args, ival, 0))

\* n->as(t)
AsCall(cap, types) ==
    \E n \in LiveNodes : \E t \in types : \E stale \in Stales :
        Finish(cap, "as", t, <<n>>, 0, as(Ctx(stale, FALSE), Store, n, t))

\* n->rebalanceSum()
RebalanceCall(cap) ==
    \E n \in LiveNodes : \E stale \in Stales :
        Finish(cap, "rebalanceSum", "", <<n>>, 0,
               rebalanceSum(Ctx(stale, FALSE), Store, n))

\* n->optimize()
OptimizeCall(cap) ==
    \E n \in LiveNodes : \E stale \in Stales :
        Finish(cap, "optimize", "", <<n>>, 0, optimize(Ctx(stale, FALSE), Store, n))

\* n->substitute(var, val)
SubstituteCall(cap, targets, vals) ==
    \E n \in LiveNodes : \E var \in targets : \E val \in vals :
    \E stale \in Stales :
        Finish(cap, "substitute", var, <<n>>, val,
               substitute(Ctx(stale, FALSE), Store, n, var, val))

\* n->bind(x, NULL, NULL, NULL)
BindCall(cap) ==
    \E n \in LiveNodes : \E x \in LiveNodes : \E stale \in Stales :
        Finish(cap, "bind", "", <<n, x>>, 0,
               bind(Ctx(stale, FALSE), Store, n, x, 0, 0, 0))

\* collectGarbage(saved), every root live
CollectCall(cap) ==
    \E saved \in SUBSET LiveNodes : \E stale \in Stales :
        Finish(cap, "collectGarbage", "", SetToSeq(saved), 0,
               Ok(collectGarbage(stale, Store, saved), 0))

\* clearAll()
ClearCall(cap) ==
    /\ allNodes # <<>>
    /\ Finish(cap, "clearAll", "", <<>>, 0, Ok(clearAll(Store), 0))

\* ------------------------------------------------------------ specifications
\* The graph client: variables, placeholders and sums, every bulk transform,
\* and the collector.
GraphOps == {"VarX", "UnboundVar", "Plus"}

Next ==
    \/ MakeIntCall(MaxNodes, {0})
    \/ MakeCall(MaxNodes, GraphOps, {0})
    \/ RebalanceCall(MaxNodes)
    \/ SubstituteCall(MaxNodes, {"VarX"}, {0})
    \/ BindCall(MaxNodes)
    \/ CollectCall(MaxNodes)

Spec == Init /\ [][Next]_vars

\* The collecting client: a variable, the casts make inserts above it, and the
\* collector.
CastOps == {"VarX", "IntToFloat", "Sin"}

NextGC ==
    \/ MakeIntCall(GCNodes, {0})
    \/ MakeCall(GCNodes, CastOps, {0})
    \/ CollectCall(GCNodes)

SpecGC == Init /\ [][NextGC]_vars

\* The client that rebalances sums with dependency-free terms.  It starts
\* from the store its first three calls leave: make(0), make(Abs, make(0)) and
\* make(VarX).
IdemLeaves ==
    Then(makeInt(EmptyStore, 0), LAMBDA c :
    Then(make0(Ctx(FALSE, FALSE), c.st, "Abs", <<c.r>>), LAMBDA a :
         make0(Ctx(FALSE, FALSE), a.st, "VarX", <<>>)))

InitIdem ==
    /\ nodes = IdemLeaves.st.nodes
    /\ allNodes = IdemLeaves.st.all
    /\ floatInstances = IdemLeaves.st.fI
    /\ intInstances = IdemLeaves.st.iI
    /\ varInstances = IdemLeaves.st.vI
    /\ last = NoCall
    /\ halted = FALSE

NextIdem ==
    \/ MakeCall(IdemNodes, {"Plus"}, {0})
    \/ RebalanceCall(IdemNodes)

SpecIdem == InitIdem /\ [][NextIdem]_vars

\* The client that builds Int sums and rebalances them.
SumClientOps == {"VarX", "Plus", "Minus", "PlusImm"}

NextSum ==
    \/ MakeIntCall(SumNodes, {0, 1})
    \/ MakeCall(SumNodes, SumClientOps, {1})
    \/ RebalanceCall(SumNodes)
    \/ OptimizeCall(SumNodes)

SpecSum == Init /\ [][NextSum]_vars

\* The client that mixes operand types: comparisons, guards, products and
\* quotients over Int and Float operands, coercions, and the bulk transforms.
TypingOps == {"VarX", "UnboundVar", "LT", "NEQ", "And", "Or", "Times", "Divide"}

NextTyping ==
    \/ MakeIntCall(TypingNodes, {0, 1})
    \/ MakeFloatCall(TypingNodes, {One})
    \/ MakeCall(TypingNodes, TypingOps, {0})
    \/ AsCall(TypingNodes, Types)
    \/ RebalanceCall(TypingNodes)
    \/ SubstituteCall(TypingNodes, {"VarX"}, {0})
    \/ BindCall(TypingNodes)

SpecTyping == Init /\ [][NextTyping]_vars

\* The client that calls make on dependency-free operands.
FoldClientOps == FoldOps \cup {"Abs"}

NextFold ==
    \/ MakeIntCall(FoldNodes, {-1, 0, 1})
    \/ MakeFloatCall(FoldNodes, {0, One})
    \/ MakeCall(FoldNodes, FoldClientOps, {0, 1})

SpecFold == Init /\ [][NextFold]_vars

\* The client that asks for constants, folds them, collects and clears.
ConstOps == {"Plus", "IntToFloat"}

NextConst ==
    \/ MakeIntCall(ConstNodes, {0, 1})
    \/ MakeFloatCall(ConstNodes, {0, One})
    \/ MakeCall(ConstNodes, ConstOps, {0})
    \/ CollectCall(ConstNodes)
    \/ ClearCall(ConstNodes)

SpecConst == Init /\ [][NextConst]_vars

\* The client that passes make any number of inputs.
ArityOps == {"VarX", "Plus", "Divide"}

NextArity ==
    \/ MakeIntCall(ArityNodes, {0})
    \/ MakeFloatCall(ArityNodes, {One})
    \/ MakeAnyCall(ArityNodes, ArityOps, {0})

SpecArity == Init /\ [][NextArity]_vars

\* The client that substitutes in sums.  It starts from the store its first
\* two calls leave: make(VarX) and make(VarY).
SubstLeaves ==
    Then(make0(Ctx(FALSE, FALSE), EmptyStore, "VarX", <<>>), LAMBDA x :
         make0(Ctx(FALSE, FALSE), x.st, "VarY", <<>>))

InitSubst ==
    /\ nodes = SubstLeaves.st.nodes
    /\ allNodes = SubstLeaves.st.all
    /\ floatInstances = SubstLeaves.st.fI
    /\ intInstances = SubstLeaves.st.iI
    /\ varInstances = SubstLeaves.st.vI
    /\ last = NoCall
    /\ halted = FALSE

SubstOps == {"Plus", "PlusImm", "UnboundVar"}

NextSubst ==
    \/ MakeCall(SubstNodes, SubstOps, {1})
    \/ SubstituteCall(SubstNodes, {"VarX", "Plus"}, {1})

SpecSubst == InitSubst /\ [][NextSubst]_vars

\* The client that builds disjunctions over Int, Float and Bool operands.  It
\* starts from the store its first three calls leave: x = make(VarX),
\* f = make(IntToFloat, x) and make(LT, f, f), one node of each type.
OrLeaves ==
    Then(make0(Ctx(FALSE, FALSE), EmptyStore, "VarX", <<>>), LAMBDA x :
    Then(make0(Ctx(FALSE, FALSE), x.st, "IntToFloat", <<x.r>>), LAMBDA f :
         make0(Ctx(FALSE, FALSE), f.st, "LT", <<f.r, f.r>>)))

InitOr ==
    /\ nodes = OrLeaves.st.nodes
    /\ allNodes = OrLeaves.st.all
    /\ floatInstances = OrLeaves.st.fI
    /\ intInstances = OrLeaves.st.iI
    /\ varInstances = OrLeaves.st.vI
    /\ last = NoCall
    /\ halted = FALSE

OrOps == {"Or", "GT"}

NextOr ==
    \/ MakeIntCall(OrNodes, {0})
    \/ MakeCall(OrNodes, OrOps, {0})

SpecOr == InitOr /\ [][NextOr]_vars

\* The client that loads from computed addresses.  It starts from the store
\* its first three calls leave: make(VarX), make(0) and make(1).
LoadLeaves ==
    Then(make0(Ctx(FALSE, FALSE), EmptyStore, "VarX", <<>>), LAMBDA x :
    Then(makeInt(x.st, 0), LAMBDA c : makeInt(c.st, 1)))

InitLoad ==
    /\ nodes = LoadLeaves.st.nodes
    /\ allNodes = LoadLeaves.st.all
    /\ floatInstances = LoadLeaves.st.fI
    /\ intInstances = LoadLeaves.st.iI
    /\ varInstances = LoadLeaves.st.vI
    /\ last = NoCall
    /\ halted = FALSE

LoadOps == {"Plus", "Minus", "PlusImm", "Load", "LoadImm"}

NextLoad == MakeCall(LoadNodes, LoadOps, {0, 1})

SpecLoad == InitLoad /\ [][NextLoad]_vars

\* The client that builds nodes of every dependency: the four variables,
\* placeholders, loads and sums, and collects garbage.
DepsOps == VarOps \cup {"UnboundVar", "Load", "Plus"}

NextDeps ==
    \/ MakeIntCall(DepsNodes, {0})
    \/ MakeCall(DepsNodes, DepsOps, {0})
    \/ CollectCall(DepsNodes)

SpecDeps == Init /\ [][NextDeps]_vars

\* The client that calls every operation that builds nodes, and the collector.
FrameOps == {"VarX", "UnboundVar", "Plus"}

NextFrame ==
    \/ MakeIntCall(FrameNodes, {0})
    \/ MakeCall(FrameNodes, FrameOps, {0})
    \/ AsCall(FrameNodes, {Float_})
    \/ SubstituteCall(FrameNodes, {"VarX"}, {0})
    \/ BindCall(FrameNodes)
    \/ RebalanceCall(FrameNodes)
    \/ OptimizeCall(FrameNodes)
    \/ CollectCall(FrameNodes)

SpecFrame == Init /\ [][NextFrame]_vars

\* The client that applies Abs and the rounding opcodes to an Int, a Float
\* and a Bool node, from the store of the disjunction client.
UnaryOps == RoundOps \cup {"Abs"}

NextUnary ==
    \/ MakeIntCall(OrNodes, {0, 1})
    \/ MakeCall(OrNodes, UnaryOps, {0})

SpecUnary == InitOr /\ [][NextUnary]_vars

\* The client that multiplies sums of variables of two levels.  It starts
\* from the store its first four calls leave: x = make(VarX), y = make(VarY),
\* make(Plus, y, x) and make(Plus, y, y).
InitTimes ==
    LET leaves ==
          Then(make0(Ctx(FALSE, FALSE), EmptyStore, "VarX", <<>>), LAMBDA x :
          Then(make0(Ctx(FALSE, FALSE), x.st, "VarY", <<>>), LAMBDA y :
          Then(make0(Ctx(FALSE, FALSE), y.st, "Plus", <<y.r, x.r>>), LAMBDA p :
               make0(Ctx(FALSE, FALSE), p.st, "Plus", <<y.r, y.r>>))))
    IN  /\ nodes = leaves.st.nodes
        /\ allNodes = leaves.st.all
        /\ floatInstances = leaves.st.fI
        /\ intInstances = leaves.st.iI
        /\ varInstances = leaves.st.vI
        /\ last = NoCall
        /\ halted = FALSE

TimesOps == {"Times"}

NextTimes == MakeCall(TimesNodes, TimesOps, {0})

SpecTimes == InitTimes /\ [][NextTimes]_vars

\* The client that rebalances sums of placeholders and a variable.  It starts
\* from the store its first five calls leave: u = make(UnboundVar),
\* v = make(UnboundVar), x = make(VarX), make(Plus, u, v) and
\* make(Plus, make(Plus, u, v), x).
InitSort ==
    LET seeded ==
          Then(make0(Ctx(FALSE, FALSE), EmptyStore, "UnboundVar", <<>>), LAMBDA u :
          Then(make0(Ctx(FALSE, FALSE), u.st, "UnboundVar", <<>>), LAMBDA v :
          Then(make0(Ctx(FALSE, FALSE), v.st, "VarX", <<>>), LAMBDA x :
          Then(make0(Ctx(FALSE, FALSE), x.st, "Plus", <<u.r, v.r>>), LAMBDA s :
               make0(Ctx(FALSE, FALSE), s.st, "Plus", <<s.r, x.r>>)))))
    IN  /\ nodes = seeded.st.nodes
        /\ allNodes = seeded.st.all
        /\ floatInstances = seeded.st.fI
        /\ intInstances = seeded.st.iI
        /\ varInstances = seeded.st.vI
        /\ last = NoCall
        /\ halted = FALSE

NextSort ==
    \/ MakeCall(SortNodes, {"Plus"}, {0})
    \/ RebalanceCall(SortNodes)

SpecSort == InitSort /\ [][NextSort]_vars

\* ------------------------------------------------------------------ properties
\* what the CSE scan compares
Signature(nd) == <<nd.op, nd.type, nd.ival, nd.fval, nd.inputs>>

\* C1: CSE invariant.  In every state reached by make, substitute, bind,
\* rebalanceSum and collectGarbage calls, no two distinct live nodes whose op is
\* not UnboundVar have the same (op, type, ival, fval, inputs), and every live
\* node with inputs is among the outputs of its first input, where the scan of
\* inputs[0].outputs finds it.
CSEInvariant ==
    /\ \A a \in LiveNodes : \A b \in LiveNodes :
          (a # b /\ nodes[a].op # "UnboundVar")
              => Signature(nodes[a]) # Signature(nodes[b])
    /\ \A a \in LiveNodes :
          nodes[a].inputs # <<>>
              => a \in Range(nodes[nodes[a].inputs[1]].outputs)

\* a make call for an existing sum returned the live node already in the
\* store, after a collection that deleted a node
CSEReusedAfterCollect ==
    /\ last.call = "make"
    /\ last.op = "Plus"
    /\ last.status = "ok"
    /\ last.ret <= last.pre
    /\ last.ret \in LiveNodes
    /\ Len(nodes) > Len(allNodes)

\* C2: under make and collectGarbage, the CSE scan inside make visits only
\* live nodes, and the node make returns is in the node store.
CSEVisitsLive ==
    last.call = "make"
        => /\ ~last.uaf
           /\ (last.status = "ok" => last.ret \in LiveNodes)

\* the nodes reachable from the set S by following inputs edges
RECURSIVE Descendents(_, _)
Descendents(ns, S) ==
    LET T == S \cup UNION {Range(ns[n].inputs) : n \in S}
    IN  IF T = S THEN S ELSE Descendents(ns, T)

\* C3: GC soundness.  After collectGarbage(R) with every root live, the node
\* store holds exactly the nodes reachable from R along inputs edges, and the
\* three tables hold exactly the surviving Const and VarX/Y/T/C nodes.
GCSound ==
    (last.call = "collectGarbage" /\ last.status = "ok")
        => /\ LiveNodes = Descendents(nodes, Range(last.args))
           /\ Range(floatInstances) =
                 {n \in LiveNodes : nodes[n].op = "Const" /\ nodes[n].type = Float_}
           /\ Range(intInstances) =
                 {n \in LiveNodes : nodes[n].op = "Const" /\ nodes[n].type = Int_}
           /\ Range(varInstances) = {n \in LiveNodes : nodes[n].op \in VarOps}

\* C4: rebalance idempotence.  For the node r the call rebalanceSum(n)
\* returned, rebalanceSum(r) returns r itself.
RebalanceIdempotent ==
    (last.call = "rebalanceSum" /\ last.status = "ok"
        /\ nodes[last.args[1]].type \in {Int_, Float_})
        => rebalanceSum(Ctx(FALSE, FALSE), Store, last.ret) = Ok(Store, last.ret)

\* the values a non-constant leaf of a sum is given
LeafVals == {0, 1}

\* the integer the Int node n denotes when each leaf that is not a constant
\* has the value asg gives it
RECURSIVE Denote(_, _, _)
Denote(ns, n, asg) ==
    IF ns[n].op = "Const" THEN ns[n].ival
    ELSE IF ns[n].op = "Plus"
    THEN Denote(ns, ns[n].inputs[1], asg) + Denote(ns, ns[n].inputs[2], asg)
    ELSE IF ns[n].op = "Minus"
    THEN Denote(ns, ns[n].inputs[1], asg) - Denote(ns, ns[n].inputs[2], asg)
    ELSE IF ns[n].op = "Times"
    THEN Denote(ns, ns[n].inputs[1], asg) * Denote(ns, ns[n].inputs[2], asg)
    ELSE IF ns[n].op = "PlusImm" THEN Denote(ns, ns[n].inputs[1], asg) + ns[n].ival
    ELSE IF ns[n].op = "TimesImm" THEN Denote(ns, ns[n].inputs[1], asg) * ns[n].ival
    ELSE IF ns[n].op = "Abs" THEN abs(Denote(ns, ns[n].inputs[1], asg))
    ELSE asg[n]

\* C5: rebalanceSum and optimize preserve the value of an Int sum.  For an Int
\* node n built from Plus, Minus and PlusImm over leaves, and every integer
\* assignment to the leaves, the node returned denotes the integer n denotes.
SumValuePreserved ==
    (last.call \in {"rebalanceSum", "optimize"} /\ last.status = "ok"
        /\ nodes[last.args[1]].type = Int_ /\ nodes[last.args[1]].op \in SumOps)
        => \A asg \in [DOMAIN nodes -> LeafVals] :
              Denote(nodes, last.ret, asg) = Denote(nodes, last.args[1], asg)

\* C6: every call of make, as, substitute, bind and rebalanceSum on live nodes
\* terminates: none re-enters make with the arguments and the store of a make
\* call still in progress.
CallsTerminate ==
    last.call \in {"make", "as", "substitute", "bind", "rebalanceSum"}
        => last.status # "diverged"

\* C7: make(cmp, a, b) on numeric a and b returns a Bool node whose two
\* operands are both Float if a or b is Float and both Int otherwise, and
\* x.as(Bool) on an Int node x returns the node NEQ(x, make(0)).
ComparisonTyping ==
    /\ (last.call = "make" /\ last.op \in CmpOps
           /\ \A i \in 1..2 : nodes[last.args[i]].type \in {Int_, Float_})
          => /\ last.status = "ok"
             /\ nodes[last.ret].type = Bool_
             /\ nodes[last.ret].op = last.op
             /\ \A i \in 1..2 :
                   nodes[nodes[last.ret].inputs[i]].type =
                      (IF \E j \in 1..2 : nodes[last.args[j]].type = Float_
                       THEN Float_ ELSE Int_)
    /\ (last.call = "as" /\ last.op = Bool_ /\ nodes[last.args[1]].type = Int_)
          => /\ last.status = "ok"
             /\ nodes[last.ret].op = "NEQ"
             /\ nodes[last.ret].inputs = <<last.args[1], mapGet(intInstances, 0)>>

\* whether the last call was make(op, ...) for an op of ops with every input
\* dependency-free
FoldCall(ops) ==
    /\ last.call = "make"
    /\ last.op \in ops
    /\ \A i \in DOMAIN last.args : nodes[last.args[i]].deps = {}

\* the operation op on the integers a and b, with immediate k
IntResult(op, a, b, k) ==
    IF op = "Plus" THEN a + b
    ELSE IF op = "Minus" THEN a - b
    ELSE IF op = "Times" THEN a * b
    ELSE IF op = "PlusImm" THEN a + k
    ELSE a * k   \* TimesImm

\* the integer the dependency-free node n denotes
ValueOf(n) == Denote(nodes, n, [i \in DOMAIN nodes |-> 0])

\* C8: constant folding computes the right value.  When every input of
\* make(op, ...) has deps == 0 and op is Plus, Minus, Times, PlusImm or
\* TimesImm on Int, the returned constant's ival is the operation applied to
\* the integers the inputs denote, whether an input is a Const or not.
FoldValue ==
    (FoldCall({"Plus", "Minus", "Times", "PlusImm", "TimesImm"})
        /\ \A i \in DOMAIN last.args : nodes[last.args[i]].type = Int_)
        => /\ last.status = "ok"
           /\ nodes[last.ret].op = "Const"
           /\ nodes[last.ret].ival =
                 IntResult(last.op, ValueOf(last.args[1]),
                           ValueOf(last.args[Len(last.args)]), last.ival)

\* the constant node c is non-zero
Truthy(c) == IF nodes[c].type = Float_ THEN nodes[c].fval # 0 ELSE nodes[c].ival # 0

\* the node n is the zero constant of type t
IsZeroOf(n, t) ==
    /\ nodes[n].op = "Const"
    /\ nodes[n].type = t
    /\ nodes[n].ival = 0
    /\ nodes[n].fval = 0

\* C9: logical fold semantics.  For constants g and v, with g a Float or Int
\* constant, make(And, g, v) returns v when g is non-zero and the zero of v's
\* type otherwise, and make(Nand, g, v) returns the zero when g is non-zero and
\* v otherwise.
LogicalFold ==
    (last.call = "make" /\ last.op \in {"And", "Nand"}
        /\ \A i \in 1..2 : nodes[last.args[i]].op = "Const")
        => /\ last.status = "ok"
           /\ IF Truthy(last.args[1]) = (last.op = "And")
              THEN last.ret = last.args[2]
              ELSE IsZeroOf(last.ret, nodes[last.args[2]].type)

\* C10: fold dominates construct.  When every input of make(op, ...) has
\* deps == 0 and op has a fold, the node returned is the uniqued constant, and
\* the call adds no node that is not a Const to the store.
FoldDominates ==
    FoldCall(FoldOps)
        => /\ last.status = "ok"
           /\ nodes[last.ret].op = "Const"
           /\ last.ret \in Range(intInstances) \cup Range(floatInstances)
           /\ \A n \in (last.pre + 1)..Len(nodes) : nodes[n].op = "Const"

\* the live Const nodes of type t
LiveConsts(t) == {n \in LiveNodes : nodes[n].op = "Const" /\ nodes[n].type = t}

\* C11: constant uniqueness.  After any make, collectGarbage and clearAll
\* calls there is at most one live Const node per type and value, each table
\* maps a value to exactly that node, and make(v) returns the node of its
\* table: the one that was live before the call when there was one.
ConstUnique ==
    /\ \A a \in LiveNodes : \A b \in LiveNodes :
          (nodes[a].op = "Const" /\ nodes[b].op = "Const" /\ a # b)
              => <<nodes[a].type, nodes[a].ival, nodes[a].fval>>
                    # <<nodes[b].type, nodes[b].ival, nodes[b].fval>>
    /\ Range(intInstances) = LiveConsts(Int_)
    /\ Range(floatInstances) = LiveConsts(Float_)
    /\ \A v \in DOMAIN intInstances : nodes[intInstances[v]].ival = v
    /\ \A v \in DOMAIN floatInstances : nodes[floatInstances[v]].fval = v
    /\ last.call = "makeInt" => last.ret = mapGet(intInstances, last.ival)
    /\ last.call = "makeFloat" => last.ret = mapGet(floatInstances, last.ival)

\* make(int) returned the constant that survived a collection
ConstReusedAfterCollect ==
    /\ last.call = "makeInt"
    /\ last.ret <= last.pre
    /\ last.ret \in LiveNodes
    /\ Len(nodes) > Len(allNodes)

\* C12: arity violations are fatal for every opcode.  A make call whose
\* number of inputs differs from the opcode's arity, Divide and ATan2 with
\* fewer than two inputs included, ends in exit(-1), before an input is read
\* or a node is created.
ArityFatal ==
    (last.call = "make" /\ Len(last.args) # Arity(last.op))
        => last.status = "fatal" /\ Len(nodes) = last.pre

\* C13: substitute(var, k) with var not one of VarX, VarY, VarT, VarC is
\* fatal for every receiver, a receiver whose own op is var included.
SubstituteNonVarFatal ==
    (last.call = "substitute" /\ last.op \notin VarOps)
        => last.status = "fatal"

OrType(a, b) ==
    IF Float_ \in {nodes[a].type, nodes[b].type} THEN Float_
    ELSE IF Int_ \in {nodes[a].type, nodes[b].type} THEN Int_
    ELSE Bool_

\* C14: make(Or, a, b) on operands that are not both dependency-free returns
\* an Or node of type Float if either operand is Float, otherwise Int if
\* either operand is Int, otherwise Bool, with both operands of that type.
OrTyping ==
    (last.call = "make" /\ last.op = "Or"
        /\ \E i \in 1..2 : nodes[last.args[i]].deps # {})
        => /\ last.status = "ok"
           /\ nodes[last.ret].op = "Or"
           /\ nodes[last.ret].type = OrType(last.args[1], last.args[2])
           /\ \A i \in 1..2 : nodes[nodes[last.ret].inputs[i]].type
                                 = OrType(last.args[1], last.args[2])

\* C16: bind replaces only the UnboundVar nodes identical to one of its
\* arguments: every other UnboundVar below the receiver is, as the same node,
\* below the node bind returns.
BindKeepsOthers ==
    (last.call = "bind" /\ last.status = "ok")
        => \A u \in Descendents(nodes, {last.args[1]}) :
              (nodes[u].op = "UnboundVar" /\ u # last.args[2])
                  => u \in Descendents(nodes, {last.ret})

\* C17: make(Load, x) and make(LoadImm, x, k), with x one of Plus(a, const c),
\* Plus(const c, a), Minus(a, const c), PlusImm(a, c), return a LoadImm node
\* whose input is a and whose ival is k + c (k - c for Minus).
LoadFuses ==
    (last.call = "make" /\ last.op \in {"Load", "LoadImm"}
        /\ (last.op = "Load" => last.ival = 0)
        /\ loadFusion(Store, last.args, last.ival).hit)
        => /\ last.status = "ok"
           /\ nodes[last.ret].op = "LoadImm"
           /\ nodes[last.ret].inputs = <<loadFusion(Store, last.args, last.ival).base>>
           /\ nodes[last.ret].ival = loadFusion(Store, last.args, last.ival).off

\* C18: back-edge consistency.  In every reachable state every input I of a
\* live node N is live, and N is in the outputs list of I.
BackEdges ==
    \A n \in LiveNodes : \A i \in Range(nodes[n].inputs) :
        i \in LiveNodes /\ n \in Range(nodes[i].outputs)

\* C19: dependency invariant.  Every live node has as deps the union of its
\* inputs' deps and the self-bit of its op, and as level the level of its deps.
DepsInvariant ==
    \A n \in LiveNodes :
        /\ nodes[n].deps = selfDeps(nodes[n].op)
                             \cup UNION {nodes[i].deps : i \in Range(nodes[n].inputs)}
        /\ nodes[n].level = levelOf(nodes[n].deps)

\* a live Load of an expression over VarX: DepMem and DepX, level 4
LoadOfVarLive ==
    \E n \in LiveNodes :
        /\ nodes[n].op = "Load"
        /\ nodes[n].deps = {"DepMem", "DepX"}
        /\ nodes[n].level = 4

\* the operations that build nodes
BuildCalls ==
    {"makeInt", "makeFloat", "make", "as", "substitute", "bind", "rebalanceSum",
     "optimize"}

\* C20: no node is mutated after construction.  A step of make, as,
\* substitute, bind, rebalanceSum or optimize leaves the type, op, inputs, ival,
\* fval, deps and level of every existing node as they were, removes no node
\* from the store, and only appends to the outputs of existing nodes.
NoMutation ==
    [][last'.call \in BuildCalls =>
          /\ Len(allNodes') >= Len(allNodes)
          /\ SubSeq(allNodes', 1, Len(allNodes)) = allNodes
          /\ \A n \in LiveNodes :
                /\ \A f \in {"type", "op", "inputs", "ival", "fval", "deps", "level"} :
                      nodes'[n][f] = nodes[n][f]
                /\ Len(nodes'[n].outputs) >= Len(nodes[n].outputs)
                /\ SubSeq(nodes'[n].outputs, 1, Len(nodes[n].outputs))
                      = nodes[n].outputs]_vars

\* a node that had an output before the call has been given one more by it
OutputsAppended ==
    /\ last.call \in BuildCalls /\ last.status = "ok"
    /\ \E n \in LiveNodes :
          /\ n <= last.pre
          /\ Len(nodes[n].outputs) >= 2
          /\ nodes[n].outputs[1] <= last.pre
          /\ nodes[n].outputs[Len(nodes[n].outputs)] > last.pre

\* C21: variable uniqueness.  At most one live node exists for each of VarX,
\* VarY, VarT, VarC, and make of a variable returns the live node of that
\* variable that already existed, a collectGarbage that kept it included.
VarUnique ==
    /\ \A v \in VarOps :
          Cardinality({n \in LiveNodes : nodes[n].op = v}) <= 1
    /\ (last.call = "make" /\ last.op \in VarOps)
          => /\ last.status = "ok"
             /\ last.ret \in LiveNodes
             /\ nodes[last.ret].op = last.op
             /\ \A n \in LiveNodes :
                   (n <= last.pre /\ nodes[n].op = last.op) => last.ret = n

\* make(VarX) has returned the VarX node that an earlier collectGarbage kept
VarReusedAfterCollect ==
    /\ last.call = "make" /\ last.op = "VarX" /\ last.status = "ok"
    /\ last.ret <= last.pre
    /\ Len(allNodes) < Len(nodes)

\* C22: UnboundVar non-uniqueness.  Every make(UnboundVar) returns a live
\* node that no earlier call created.
UnboundFresh ==
    (last.call = "make" /\ last.op = "UnboundVar")
        => /\ last.status = "ok"
           /\ last.ret > last.pre
           /\ last.ret \in LiveNodes
           /\ nodes[last.ret].op = "UnboundVar"

\* make(UnboundVar) has returned a second live UnboundVar node
TwoUnboundLive ==
    /\ last.call = "make" /\ last.op = "UnboundVar" /\ last.status = "ok"
    /\ \E n \in LiveNodes : n # last.ret /\ nodes[n].op = "UnboundVar"

\* C23: sharing short-circuit.  substitute(v, k) on a receiver whose deps
\* lacks the bit of v, and bind on a receiver whose deps lacks DepUnbound,
\* return the receiver and leave the node store and the three tables unchanged.
ShortCircuit ==
    [][(\/ /\ last'.call = "substitute" /\ last'.op \in VarOps
           /\ depOf(last'.op) \notin nodes[last'.args[1]].deps
        \/ /\ last'.call = "bind"
           /\ "DepUnbound" \notin nodes[last'.args[1]].deps)
          => /\ last'.status = "ok"
             /\ last'.ret = last'.args[1]
             /\ UNCHANGED <<nodes, allNodes, floatInstances, intInstances,
                            varInstances>>]_vars

\* substitute(VarX, 0) on a sum that does not depend on VarX has returned it
SumReturnedAsIs ==
    /\ last.call = "substitute" /\ last.op = "VarX" /\ last.status = "ok"
    /\ nodes[last.args[1]].op = "Plus"
    /\ "DepX" \notin nodes[last.args[1]].deps
    /\ last.ret = last.args[1]

\* C24: identity cases of unary ops.  make(Abs, b) with b of type Bool, and
\* make(Floor | Ceil | Round, n) with n of type Int or Bool, return the operand
\* itself and create no node.
UnaryIdentity ==
    (last.call = "make"
        /\ \/ last.op = "Abs" /\ nodes[last.args[1]].type = Bool_
           \/ last.op \in RoundOps /\ nodes[last.args[1]].type \in {Int_, Bool_})
        => /\ last.status = "ok"
           /\ last.ret = last.args[1]
           /\ Len(nodes) = last.pre

\* make(Abs, b) on a Bool comparison has returned the comparison
AbsOfBoolReturned ==
    /\ last.call = "make" /\ last.op = "Abs" /\ last.status = "ok"
    /\ nodes[last.args[1]].type = Bool_ /\ nodes[last.args[1]].op = "LT"
    /\ last.ret = last.args[1]

\* the x, a, b of the distribution when operand i of the Times is the Plus:
\* x the higher-level input of the Plus, a its other input, b the other operand
PlusOperand(i) ==
    LET s == nodes[last.args[i]]
        p == s.inputs[1]
        q == s.inputs[2]
        hi == IF nodes[q].level >= nodes[p].level THEN q ELSE p
    IN  [x |-> hi, a |-> IF hi = q THEN p ELSE q, b |-> last.args[3 - i]]

\* operand i of the Times is a Plus that passes the level test
Distributes(i) ==
    /\ nodes[last.args[i]].op = "Plus"
    /\ nodes[PlusOperand(i).x].level > nodes[PlusOperand(i).a].level
    /\ nodes[PlusOperand(i).x].level > nodes[PlusOperand(i).b].level

\* C25: distribution of Times over Plus.  make(Times, u, v) in which an
\* operand, first or second, is a Plus(p, q) that passes the level test returns
\* make(Plus, make(Times, x, b), make(Times, a, b)).
TimesDistributes ==
    \A i \in 1..2 :
        (last.call = "make" /\ last.op = "Times" /\ Distributes(i))
            => /\ last.status = "ok"
               /\ plusOfTwo(Ctx(FALSE, FALSE), Store,
                            "Times", <<PlusOperand(i).x, PlusOperand(i).b>>,
                            "Times", <<PlusOperand(i).a, PlusOperand(i).b>>)
                     = Ok(Store, last.ret)

\* the terms in ascending level, terms of one level in the order they have
StableByLevel(terms) ==
    LET pick(L) == SelectSeq(terms, LAMBDA e : nodes[e.n].level = L)
    IN  pick(0) \o pick(1) \o pick(2) \o pick(3) \o pick(4) \o pick(99)

\* C26: rebalanceSum orders the non-constant terms by ascending level with a
\* stable order.  For a sum of positive non-constant terms, the terms of the
\* rebuilt sum are the collected terms in ascending level, terms of equal level
\* in the order the traversal collected them.
SortStable ==
    (last.call = "rebalanceSum" /\ last.status = "ok"
        /\ nodes[last.args[1]].op \in SumOps
        /\ \A i \in DOMAIN collectSum(Store, last.args[1], TRUE).r :
              /\ collectSum(Store, last.args[1], TRUE).r[i].pos
              /\ nodes[collectSum(Store, last.args[1], TRUE).r[i].n].op # "Const")
        => collectSum(Store, last.ret, TRUE).r
              = StableByLevel(collectSum(Store, last.args[1], TRUE).r)

\* C27: every live node that reads memory is ranked innermost.  Each live
\* Load or LoadImm node, and each live node with one among its transitive
\* inputs, has DepMem in deps and level 4 or 99.
MemRankedInnermost ==
    \A n \in LiveNodes :
        (\E m \in Descendents(nodes, {n}) : nodes[m].op \in {"Load", "LoadImm"})
            => /\ "DepMem" \in nodes[n].deps
               /\ nodes[n].level \in {4, 99}

\* C28: in every reachable state each live Plus, Minus or PlusImm node has a
\* term that is not a Const node in the list collectSum gathers from it.
SumHasNonConstTerm ==
    \A n \in LiveNodes :
        nodes[n].op \in SumOps
            => LET cs == collectSum(Store, n, TRUE)
               IN  cs.status = "ok" /\ nonConstTermsOf(cs.st, cs.r) # <<>>

\* a live sum whose collected terms hold a Const node and a node that is not
SumWithConstTermLive ==
    \E n \in LiveNodes :
        /\ nodes[n].op \in SumOps
        /\ LET cs == collectSum(Store, n, TRUE)
           IN  /\ constTermsOf(cs.st, cs.r) # <<>>
               /\ nonConstTermsOf(cs.st, cs.r) # <<>>

====
